---------------------------- MODULE Spec2Model ----------------------------
(***************************************************************************)
(* A model of the career advisor agent: the retrying transport clients     *)
(* (OpenRouterLLM, TavilySearchTool), the tolerant JSON extraction of      *)
(* ProfileAnalyzerAgent, and the BaseAgent result cache.                   *)
(*                                                                         *)
(* A response text is a sequence of tokens.  A token is a string: one of   *)
(* the JSON delimiters, a blank, a word of prose, a code-fence marker, or  *)
(* a whole JSON scalar/object/member written as one unit.                  *)
(***************************************************************************)
EXTENDS Integers, Sequences, FiniteSets, TLC

VARIABLES
    \* --- the transport clients
    config,         \* Config: the API keys read from the environment
    llm,            \* the OpenRouterLLM instance, or how its construction ended
    search_tool,    \* the TavilySearchTool instance, or how its construction ended
    call,           \* the frame of the current generate_text / search call
    \* --- one run of the extraction pipeline on a given response
    in_mode,        \* which of the two extractions the response is for
    in_prefix,      \* text before the embedded payload
    in_payload,     \* the embedded payload text
    in_suffix,      \* text after the embedded payload
    completion,     \* outcome of llm.get_completion: [raised, content]
    payload,        \* local skills_data / analysis_data after the parse tiers
    skills,         \* value returned by _extract_skills
    analysis,       \* value returned by _analyze_profile
    xpc,            \* position of the extraction run
    \* --- the agent
    apc,            \* position of ProfileAnalyzerAgent.execute
    profile,        \* local profile_text of the current execute
    calls_made,     \* the get_completion calls of the current execute, in order
    exec_result,    \* what the last execute returned or raised
    result_cache,   \* self.result_cache: key -> [data, timestamp]
    now,            \* the clock read by time.time()
    stored,         \* per key, the data and time of the latest _cache_result
    got,            \* what the latest cache operation returned
    executions,     \* number of execute calls so far
    exec_input,     \* input_data of the latest execute call
    execution_time, \* self.execution_time of the agent
    timer           \* clock readings at the entry and the exit of the last execute

extractVars == <<in_mode, in_prefix, in_payload, in_suffix, completion, payload,
                 skills, analysis, xpc>>

retryVars == <<config, llm, search_tool, call>>

agentVars == <<apc, profile, calls_made, exec_result, executions, exec_input,
              execution_time, timer>>

cacheVars == <<result_cache, now, stored, got>>

vars == <<retryVars, extractVars, agentVars, cacheVars>>

-----------------------------------------------------------------------------
(* Bounds of the model *)

MaxItems == 3
MaxPad == 2
MaxRetries == 4
MaxTime == 2
MaxExecutions == 2
MaxTokens == 4

-----------------------------------------------------------------------------
(* Tokens *)

LBRACKET == "["
RBRACKET == "]"
LBRACE == "{"
RBRACE == "}"
COMMA == ","
WS == " "
PROSE == "x"
FENCE_JSON == "fence+json"   \* the seven characters: three backquotes, then json
FENCE == "fence"             \* the three characters: three backquotes
NUMBER == "5"

\* Skill objects as they may appear in a response, each written as one token.
SkillTokens == {"sPython", "sLead", "sGuru", "sNoLevel", "sBadCat", "sNoName",
                "sNegYears"}

\* Members ("key": value) of an analysis object, each written as one token.
PairTokens == {"el:senior", "el:LEAD", "el:guru", "cp", "st", "wk", "ct", "er",
               "st:str", "skills"}

AtomTokens == SkillTokens \cup {NUMBER}

-----------------------------------------------------------------------------
(* Python string operations, on token sequences, with Python's 0-based     *)
(* indices.                                                                *)

Min(S) == CHOOSE m \in S : \A n \in S : m <= n
Max(S) == CHOOSE m \in S : \A n \in S : m >= n

\* str.find(tok): index of the first occurrence, -1 when there is none.
Find(text, tok) ==
    LET hits == {i \in 1..Len(text) : text[i] = tok}
    IN  IF hits = {} THEN -1 ELSE Min(hits) - 1

\* str.rfind(tok): index of the last occurrence, -1 when there is none.
RFind(text, tok) ==
    LET hits == {i \in 1..Len(text) : text[i] = tok}
    IN  IF hits = {} THEN -1 ELSE Max(hits) - 1

\* text[a:b] for 0 <= a, 0 <= b.
Slice(text, a, b) ==
    LET hi == IF b > Len(text) THEN Len(text) ELSE b
    IN  IF a >= hi THEN <<>> ELSE SubSeq(text, a + 1, hi)

\* str.strip(): leading and trailing blanks removed.
Strip(text) ==
    LET solid == {i \in 1..Len(text) : text[i] # WS}
    IN  IF solid = {} THEN <<>> ELSE SubSeq(text, Min(solid), Max(solid))

StartsWith(text, tok) == Len(text) >= 1 /\ text[1] = tok
EndsWith(text, tok) == Len(text) >= 1 /\ text[Len(text)] = tok

-----------------------------------------------------------------------------
(* json.loads, a recursive-descent parse of a token sequence.  A parsed    *)
(* value is an atom (a scalar or an object written as one token), an array *)
(* of values, or an object given by its members in textual order.          *)

Atom(tok) == [t |-> "atom", tok |-> tok]
Arr(items) == [t |-> "array", items |-> items]
Obj(members) == [t |-> "object", members |-> members]

NoValue == [t |-> "none"]
ParseFail == [ok |-> FALSE, val |-> NoValue, next |-> 0]

\* First position at or after i that holds no blank (Len(text)+1 at the end).
SkipWs(text, i) ==
    LET solid == {j \in i..Len(text) : text[j] # WS}
    IN  IF solid = {} THEN Len(text) + 1 ELSE Min(solid)

RECURSIVE ParseValue(_, _), ParseElements(_, _, _), ParseMembers(_, _, _)

\* One JSON value starting at position i (1-based).
ParseValue(text, i) ==
    IF i > Len(text) THEN ParseFail
    ELSE IF text[i] = LBRACKET THEN
        LET j == SkipWs(text, i + 1)
        IN  IF j <= Len(text) /\ text[j] = RBRACKET
            THEN [ok |-> TRUE, val |-> Arr(<<>>), next |-> j + 1]
            ELSE ParseElements(text, j, <<>>)
    ELSE IF text[i] = LBRACE THEN
        LET j == SkipWs(text, i + 1)
        IN  IF j <= Len(text) /\ text[j] = RBRACE
            THEN [ok |-> TRUE, val |-> Obj(<<>>), next |-> j + 1]
            ELSE ParseMembers(text, j, <<>>)
    ELSE IF text[i] \in AtomTokens THEN
        [ok |-> TRUE, val |-> Atom(text[i]), next |-> i + 1]
    ELSE ParseFail

\* The elements of an array, position i at the start of an element.
ParseElements(text, i, acc) ==
    LET r == ParseValue(text, i)
    IN  IF ~r.ok THEN ParseFail
        ELSE LET j == SkipWs(text, r.next)
             IN  IF j > Len(text) THEN ParseFail
                 ELSE IF text[j] = RBRACKET THEN
                     [ok |-> TRUE, val |-> Arr(Append(acc, r.val)), next |-> j + 1]
                 ELSE IF text[j] = COMMA THEN
                     ParseElements(text, SkipWs(text, j + 1), Append(acc, r.val))
                 ELSE ParseFail

\* The members of an object, position i at the start of a member.
ParseMembers(text, i, acc) ==
    IF i > Len(text) \/ text[i] \notin PairTokens THEN ParseFail
    ELSE LET j == SkipWs(text, i + 1)
         IN  IF j > Len(text) THEN ParseFail
             ELSE IF text[j] = RBRACE THEN
                 [ok |-> TRUE, val |-> Obj(Append(acc, text[i])), next |-> j + 1]
             ELSE IF text[j] = COMMA THEN
                 ParseMembers(text, SkipWs(text, j + 1), Append(acc, text[i]))
             ELSE ParseFail

\* json.loads(text): ok = FALSE stands for json.JSONDecodeError.
JsonLoads(text) ==
    LET r == ParseValue(text, SkipWs(text, 1))
    IN  IF r.ok /\ SkipWs(text, r.next) > Len(text)
        THEN [ok |-> TRUE, val |-> r.val]
        ELSE [ok |-> FALSE, val |-> NoValue]

-----------------------------------------------------------------------------
(* The parse tiers shared by _extract_skills and _analyze_profile.         *)

\* The last-resort cleaning: strip, drop a leading fence+json marker, drop a
\* trailing fence marker, strip.
CleanResponse(response) ==
    LET c1 == Strip(response)
        c2 == IF StartsWith(c1, FENCE_JSON) THEN Slice(c1, 1, Len(c1)) ELSE c1
        c3 == IF EndsWith(c2, FENCE) THEN Slice(c2, 0, Len(c2) - 1) ELSE c2
    IN  Strip(c3)

\* The first tier with the slice ending one token early (response[start:end]).
DelimiterParseShort(response, open, close) ==
    LET start_idx == Find(response, open)
        end_idx == RFind(response, close)
    IN  IF start_idx # -1 /\ end_idx # -1 /\ end_idx > start_idx
        THEN JsonLoads(Slice(response, start_idx, end_idx))
        ELSE JsonLoads(response)

\* The first tier only: the slice between the first opening and the last
\* closing delimiter, or the whole text when there is no such slice.
DelimiterParse(response, open, close) ==
    LET start_idx == Find(response, open)
        end_idx == RFind(response, close)
    IN  IF start_idx # -1 /\ end_idx # -1 /\ end_idx > start_idx
        THEN JsonLoads(Slice(response, start_idx, end_idx + 1))
        ELSE JsonLoads(response)

\* A strict parse of the whole response, with no tolerance at all.
StrictParse(response, open, close) == JsonLoads(response)

\* skills_data / analysis_data: the delimiter parse and, when it raises
\* JSONDecodeError, the parse of the cleaned response.  ok = FALSE stands for
\* the JSONDecodeError of that last parse, which leaves the inner try.
ParsePayload(response, open, close) ==
    LET first == DelimiterParse(response, open, close)
    IN  IF first.ok THEN first ELSE JsonLoads(CleanResponse(response))

-----------------------------------------------------------------------------
(* Skill: the pydantic model and its validators.                           *)

\* str.lower() on the vocabulary of the model.
Lower(s) ==
    CASE s = "Expert" -> "expert"
      [] s = "SOFT" -> "soft"
      [] s = "LEAD" -> "lead"
      [] OTHER -> s

allowed_skill_levels == {"beginner", "intermediate", "advanced", "expert"}
allowed_categories == {"technical", "soft", "domain"}
allowed_levels == {"entry", "junior", "mid", "senior", "lead", "executive"}

SkillFields == {"name", "category", "level", "years_experience"}

\* The JSON object a skill token stands for.
SkillData(tok) ==
    CASE tok = "sPython" ->
            [name |-> "Python", category |-> "technical", level |-> "advanced",
             years_experience |-> 5]
      [] tok = "sLead" ->
            [name |-> "Leadership", category |-> "SOFT", level |-> "Expert",
             years_experience |-> 2]
      [] tok = "sGuru" ->
            [name |-> "Rust", category |-> "technical", level |-> "guru",
             years_experience |-> 1]
      [] tok = "sNoLevel" ->
            [name |-> "SQL", category |-> "domain", years_experience |-> 3]
      [] tok = "sBadCat" ->
            [name |-> "Go", category |-> "hardware", level |-> "expert",
             years_experience |-> 4]
      [] tok = "sNoName" ->
            [name |-> "", category |-> "domain", level |-> "beginner",
             years_experience |-> 1]
      [] tok = "sNegYears" ->
            [name |-> "Java", category |-> "technical", level |-> "intermediate",
             years_experience |-> 0 - 1]

\* Skill(**data) raises nothing: every field present, both validators pass.
SkillAccepts(data) ==
    /\ SkillFields \subseteq DOMAIN data
    /\ Lower(data.level) \in allowed_skill_levels
    /\ Lower(data.category) \in allowed_categories

\* A Skill that keeps category and level as they were written.
SkillAsWritten(data) ==
    [name |-> data.name, category |-> data.category,
     level |-> data.level, years_experience |-> data.years_experience]

\* The Skill built from accepted data: validators return the lowercase value.
Skill(data) ==
    [name |-> data.name, category |-> Lower(data.category),
     level |-> Lower(data.level), years_experience |-> data.years_experience]

\* Skill(**item) succeeds: item is a mapping that the model accepts.
ItemAccepted(item) ==
    /\ item.t = "atom"
    /\ item.tok \in SkillTokens
    /\ SkillAccepts(SkillData(item.tok))

StrItem == [t |-> "string"]

\* Whether "for skill_data in skills_data" can iterate the parsed value.
Iterable(val) == val.t \in {"array", "object"} \/ (val.t = "atom" /\ val.tok \in SkillTokens)

\* What the for loop iterates over: the items of a list, the keys of a dict.
IterItems(val) ==
    IF val.t = "array" THEN val.items
    ELSE IF val.t = "object" THEN [i \in 1..Len(val.members) |-> StrItem]
    ELSE [i \in 1..Cardinality(DOMAIN SkillData(val.tok)) |-> StrItem]

RECURSIVE SkillLoopAbort(_, _)
\* The per-item loop without its inner try: the first failing item ends it.
SkillLoopAbort(items, acc) ==
    IF items = <<>> THEN acc
    ELSE IF ItemAccepted(Head(items))
    THEN SkillLoopAbort(Tail(items), Append(acc, Skill(SkillData(Head(items).tok))))
    ELSE <<>>

RECURSIVE SkillLoop(_, _)
\* The per-item loop: an item that fails Skill(**item) is logged and skipped.
SkillLoop(items, acc) ==
    IF items = <<>> THEN acc
    ELSE SkillLoop(Tail(items),
                   IF ItemAccepted(Head(items))
                   THEN Append(acc, Skill(SkillData(Head(items).tok)))
                   ELSE acc)

-----------------------------------------------------------------------------
(* The outcome of llm.get_completion as the agent sees it: it raised, or   *)
(* it returned a content, which is a text or None.                         *)

Raised == [raised |-> TRUE, null |-> FALSE, text |-> <<>>]
NoneContent == [raised |-> FALSE, null |-> TRUE, text |-> <<>>]
Content(text) == [raised |-> FALSE, null |-> FALSE, text |-> text]

NoPayload == [ok |-> FALSE, val |-> NoValue]

\* The value of skills_data when the for loop is reached, ok = FALSE when an
\* exception left the try block before it (the call raised, the content has
\* no find method, or the last parse raised).
SkillsPayload(c) ==
    IF c.raised \/ c.null THEN NoPayload
    ELSE ParsePayload(c.text, LBRACKET, RBRACKET)

\* What a call returns (Ret) or raises (Exc).
Ret(v) == [raised |-> FALSE, exc |-> "", value |-> v]
Exc(e) == [raised |-> TRUE, exc |-> e, value |-> <<>>]

\* The body of the outer try of _extract_skills.
SkillsBody(c) ==
    LET skills_data == SkillsPayload(c)
    IN  IF c.raised THEN Exc("Exception")
        ELSE IF c.null THEN Exc("AttributeError")
        ELSE IF ~skills_data.ok THEN Exc("JSONDecodeError")
        ELSE IF ~Iterable(skills_data.val) THEN Exc("TypeError")
        ELSE Ret(SkillLoop(IterItems(skills_data.val), <<>>))

\* _extract_skills catching json.JSONDecodeError only.
extract_skills_narrow(c) ==
    LET r == SkillsBody(c)
    IN  IF r.raised /\ r.exc = "JSONDecodeError" THEN Ret(<<>>) ELSE r

\* _extract_skills: "except Exception" turns every exception into [].
extract_skills(c) ==
    LET r == SkillsBody(c)
    IN  IF r.raised THEN Ret(<<>>) ELSE r

-----------------------------------------------------------------------------
(* _analyze_profile and the ProfileAnalysis model.                         *)

Str(v) == [t |-> "str", v |-> v]
List(v) == [t |-> "list", v |-> v]

PairKey(tok) ==
    CASE tok \in {"el:senior", "el:LEAD", "el:guru"} -> "experience_level"
      [] tok = "cp" -> "career_progression"
      [] tok \in {"st", "st:str"} -> "strengths"
      [] tok = "wk" -> "weaknesses"
      [] tok = "ct" -> "career_trajectory"
      [] tok = "er" -> "education_relevance"
      [] tok = "skills" -> "skills"

PairVal(tok) ==
    CASE tok = "el:senior" -> Str("senior")
      [] tok = "el:LEAD" -> Str("LEAD")
      [] tok = "el:guru" -> Str("guru")
      [] tok = "cp" -> Str("steady advancement")
      [] tok = "st" -> List(<<"python">>)
      [] tok = "st:str" -> Str("python")
      [] tok = "wk" -> List(<<"public speaking">>)
      [] tok = "ct" -> Str("towards staff engineer")
      [] tok = "er" -> Str("relevant degree")
      [] tok = "skills" -> List(<<>>)

\* The dict of a parsed object: a repeated key keeps its last value.
DictOf(members) ==
    LET keys == {PairKey(members[i]) : i \in 1..Len(members)}
        last(k) == Max({i \in 1..Len(members) : PairKey(members[i]) = k})
    IN  [k \in keys |-> PairVal(members[last(k)])]

list_fields == {"strengths", "weaknesses"}
text_fields == {"experience_level", "career_progression", "career_trajectory",
                "education_relevance"}
required_fields == text_fields \cup list_fields

SENTINEL == "Not enough information to analyze"

\* The loop over required_fields: a missing field gets its default.
FillDefaults(d) ==
    [k \in (DOMAIN d) \cup required_fields |->
        IF k \in DOMAIN d THEN d[k]
        ELSE IF k \in list_fields THEN List(<<>>)
        ELSE Str(SENTINEL)]

\* The default record with the sentinel text as its experience level.
DefaultAnalysisSentinelLevel ==
    [k \in required_fields |->
        CASE k = "experience_level" -> Str(SENTINEL)
          [] k = "career_progression" -> Str("Unable to analyze career progression")
          [] k = "strengths" -> List(<<"Unable to identify strengths">>)
          [] k = "weaknesses" -> List(<<"Unable to identify areas for improvement">>)
          [] k = "career_trajectory" -> Str("Unable to analyze career trajectory")
          [] k = "education_relevance" -> Str("Unable to analyze education relevance")]

\* The fixed record returned when anything inside the try raised.
DefaultAnalysis ==
    [k \in required_fields |->
        CASE k = "experience_level" -> Str("mid")
          [] k = "career_progression" -> Str("Unable to analyze career progression")
          [] k = "strengths" -> List(<<"Unable to identify strengths">>)
          [] k = "weaknesses" -> List(<<"Unable to identify areas for improvement">>)
          [] k = "career_trajectory" -> Str("Unable to analyze career trajectory")
          [] k = "education_relevance" -> Str("Unable to analyze education relevance")]

\* The value of analysis_data when the required-field loop is reached.
AnalysisPayload(c) ==
    IF c.raised \/ c.null THEN NoPayload
    ELSE ParsePayload(c.text, LBRACE, RBRACE)

\* The body of the try of _analyze_profile: "field not in 5" and item
\* assignment on a list raise TypeError.
AnalysisBody(c) ==
    LET analysis_data == AnalysisPayload(c)
    IN  IF c.raised THEN Exc("Exception")
        ELSE IF c.null THEN Exc("AttributeError")
        ELSE IF ~analysis_data.ok THEN Exc("JSONDecodeError")
        ELSE IF analysis_data.val.t # "object" THEN Exc("TypeError")
        ELSE Ret(FillDefaults(DictOf(analysis_data.val.members)))

\* _analyze_profile: "except Exception" returns the default record.
analyze_profile(c) ==
    LET r == AnalysisBody(c)
    IN  IF r.raised THEN Ret(DefaultAnalysis) ELSE r

\* ProfileAnalysis(skills=skills, **analysis) raises nothing: no second value
\* for skills, every field of its declared type, experience_level allowed.
ProfileAnalysisAccepts(a) ==
    /\ "skills" \notin DOMAIN a
    /\ required_fields \subseteq DOMAIN a
    /\ \A k \in text_fields : a[k].t = "str"
    /\ \A k \in list_fields : a[k].t = "list"
    /\ Lower(a["experience_level"].v) \in allowed_levels

\* profile_analysis.dict()
ProfileAnalysis(sk, a) ==
    [skills |-> sk,
     experience_level |-> Lower(a["experience_level"].v),
     career_progression |-> a["career_progression"].v,
     strengths |-> a["strengths"].v,
     weaknesses |-> a["weaknesses"].v,
     career_trajectory |-> a["career_trajectory"].v,
     education_relevance |-> a["education_relevance"].v]

-----------------------------------------------------------------------------
(* The retry loops of OpenRouterLLM.generate_text and                      *)
(* TavilySearchTool.search.                                                *)

\* Python's None, and a value that is not None.
None == [some |-> FALSE, v |-> "None"]
Some(v) == [some |-> TRUE, v |-> v]

\* An API key is None or a string; None and "" are false in "x or y" and
\* in "not x".
IsNone(k) == k = None
Falsy(k) == k = None \/ k = Some("")
Or(a, b) == IF Falsy(a) THEN b ELSE a

\* Config.OPENROUTER_API_KEY and Config.TAVILY_API_KEY: os.getenv gives None
\* or a string, which may be empty.
EnvKeys == {None, Some(""), Some("env-key")}
\* The preset of search parameters when the environment sets none.
DefaultSearchParams == [search_depth |-> "advanced", max_results |-> 10]

\* JSON objects the environment may set as a preset of search parameters.
SearchParamPresets ==
    {DefaultSearchParams,
     [search_depth |-> "basic", max_results |-> 5, include_domains |-> <<"example.com">>],
     [max_results |-> 3],
     [query |-> "preset-query", topic |-> "news"]}

Configs ==
    [OPENROUTER_API_KEY : EnvKeys, TAVILY_API_KEY : EnvKeys,
     TAVILY_SEARCH_PARAMS_JOB : {DefaultSearchParams},
     TAVILY_SEARCH_PARAMS_COURSE : {DefaultSearchParams}]
DefaultConfig ==
    [OPENROUTER_API_KEY |-> Some("env-key"), TAVILY_API_KEY |-> Some("env-key"),
     TAVILY_SEARCH_PARAMS_JOB |-> DefaultSearchParams,
     TAVILY_SEARCH_PARAMS_COURSE |-> DefaultSearchParams]

\* The configurations that differ in the two presets only.
SearchConfigs ==
    {[DefaultConfig EXCEPT !.TAVILY_SEARCH_PARAMS_JOB = j,
                           !.TAVILY_SEARCH_PARAMS_COURSE = c] :
        j \in SearchParamPresets, c \in SearchParamPresets}

\* The api_key argument of the constructors.
KeyArgs == {None, Some(""), Some("arg-key")}

\* Values of max_retries and retry_delay a client may be constructed with:
\* the constructors check neither.
RetryCounts == {0 - 1} \cup (0..MaxRetries)
RetryDelays == {1, 3}

\* The errors an attempt may fail with.
Errors == {"e1", "e2"}

\* What a successful request brings back.
NoResponse == [raised |-> FALSE, null |-> TRUE, text |-> <<"no response">>]
LlmContents == {NoneContent, Content(<<LBRACKET, "sPython", RBRACKET>>)}
SearchResults == {Content(<<"results">>)}

\* completion.usage: the attribute may be missing, it may be None, or it is
\* an object with the three token counts.
Usage(p, c, t) ==
    [attr |-> TRUE, null |-> FALSE,
     prompt_tokens |-> p, completion_tokens |-> c, total_tokens |-> t]
NullUsage ==
    [attr |-> TRUE, null |-> TRUE,
     prompt_tokens |-> 0, completion_tokens |-> 0, total_tokens |-> 0]
NoUsageAttr ==
    [attr |-> FALSE, null |-> TRUE,
     prompt_tokens |-> 0, completion_tokens |-> 0, total_tokens |-> 0]

\* The object client.chat.completions.create returns: its usage and the
\* message contents of its choices.
Completion(usage, choices) == [some |-> TRUE, usage |-> usage, choices |-> choices]
NoCompletion == [some |-> FALSE, usage |-> NoUsageAttr, choices |-> <<>>]

\* The completions the service may answer with.
Usages == {Usage(1, 1, 2), NullUsage, NoUsageAttr}
LlmCompletions ==
    {Completion(u, ch) : u \in Usages, ch \in {<<>>} \cup {<<c>> : c \in LlmContents}}

\* The constructors' defaults: max_retries = 3, retry_delay = 1.0; the usage
\* totals start at 0.
DefaultLlm ==
    [state |-> "ready", arg |-> None, api_key |-> Some("env-key"),
     max_retries |-> 3, retry_delay |-> 1,
     total_tokens |-> 0, total_prompt_tokens |-> 0, total_completion_tokens |-> 0]
DefaultSearchTool ==
    [state |-> "ready", arg |-> None, api_key |-> Some("env-key"),
     max_retries |-> 3, retry_delay |-> 1]

\* No constructor has been called: there is no client object.
NoLlm == [DefaultLlm EXCEPT !.state = "none", !.api_key = None]
NoSearchTool == [DefaultSearchTool EXCEPT !.state = "none", !.api_key = None]

\* OpenRouterLLM(api_key, max_retries, retry_delay): the key is the argument
\* or the configured one; without a key ValueError is raised and no object
\* exists.  max_retries and retry_delay are stored unchecked.
OpenRouterLLM_init(api_key, max_retries, retry_delay) ==
    /\ llm.state # "ready"
    /\ LET key == Or(api_key, config.OPENROUTER_API_KEY)
       IN  llm' = IF Falsy(key)
                  THEN [NoLlm EXCEPT !.state = "raised", !.arg = api_key]
                  ELSE [DefaultLlm EXCEPT !.arg = api_key, !.api_key = key,
                                          !.max_retries = max_retries,
                                          !.retry_delay = retry_delay]

\* TavilySearchTool(api_key, max_retries, retry_delay)
TavilySearchTool_init(api_key, max_retries, retry_delay) ==
    /\ search_tool.state # "ready"
    /\ LET key == Or(api_key, config.TAVILY_API_KEY)
       IN  search_tool' =
              IF Falsy(key)
              THEN [NoSearchTool EXCEPT !.state = "raised", !.arg = api_key]
              ELSE [DefaultSearchTool EXCEPT !.arg = api_key, !.api_key = key,
                                             !.max_retries = max_retries,
                                             !.retry_delay = retry_delay]

IdleCall ==
    [client |-> "none", caller |-> "none", pc |-> "idle", attempt |-> 0,
     requests |-> 0, sleeps |-> <<>>, errs |-> <<>>, outcome |-> "none",
     cause |-> "none", raises |-> 0, response |-> NoResponse,
     received |-> NoCompletion, prompt |-> <<>>,
     query |-> "", payload |-> <<>>]

\* "if hasattr(completion, 'usage')" followed by the three "+=": the attribute
\* access on a usage that is None raises AttributeError before any total has
\* changed.
UsageRaises(c) == c.usage.attr /\ c.usage.null

\* The client after the usage tracking of a completion that does not raise.
TrackUsage(l, c) ==
    IF c.usage.attr
    THEN [l EXCEPT !.total_prompt_tokens = @ + c.usage.prompt_tokens,
                   !.total_completion_tokens = @ + c.usage.completion_tokens,
                   !.total_tokens = @ + c.usage.total_tokens]
    ELSE l

\* completion.choices[0] raises IndexError on an empty list.
ChoicesRaise(c) == c.choices = <<>>

\* The totals stay within the bound of the model.
WithinTokens(c) == llm.total_tokens + c.usage.total_tokens <= MaxTokens

\* get_usage_stats(): total_cost is never updated.
get_usage_stats ==
    [total_tokens |-> llm.total_tokens,
     prompt_tokens |-> llm.total_prompt_tokens,
     completion_tokens |-> llm.total_completion_tokens,
     estimated_cost |-> 0]

\* sleep_time of a constant delay, without the exponential factor.
llm_sleep_time_flat(retry_delay, attempt) == retry_delay

\* sleep_time = self.retry_delay * (2 ** attempt)
llm_sleep_time(retry_delay, attempt) == retry_delay * (2 ^ attempt)

\* sleep_time = self.retry_delay * (2 ** attempt)
search_sleep_time(retry_delay, attempt) == retry_delay * (2 ^ attempt)

\* The cause taken from the first failed attempt instead of the current one.
FirstCause(errs) == errs[1]

\* "raise Exception(...) from e": e is the error of the attempt just made.
RaisedCause(errs) == errs[Len(errs)]

\* generate_text is entered: the loop starts at attempt 0.
generate_text_begin(caller, prompt) ==
    /\ llm.state = "ready"
    /\ call.pc \in {"idle", "done"}
    /\ call' = [IdleCall EXCEPT !.client = "llm", !.caller = caller, !.pc = "loop",
                                !.prompt = prompt]
    /\ UNCHANGED llm

\* An attempt whose request succeeds with a completion the try body gets
\* through: the usage is tracked and the envelope is returned.
generate_text_ok(c) ==
    /\ call.client = "llm"
    /\ call.pc = "loop"
    /\ call.attempt < llm.max_retries
    /\ ~UsageRaises(c) /\ ~ChoicesRaise(c)
    /\ WithinTokens(c)
    /\ llm' = TrackUsage(llm, c)
    /\ call' = [call EXCEPT !.requests = @ + 1, !.pc = "done",
                            !.outcome = "returned", !.response = c.choices[1],
                            !.received = c]

\* "except Exception as e" of the attempt that made the request: sleep and go
\* on when attempts remain, raise from e otherwise.
generate_text_except(e, c) ==
    IF call.attempt < llm.max_retries - 1
    THEN call' = [call EXCEPT
             !.requests = @ + 1,
             !.errs = Append(@, e),
             !.sleeps = Append(@, llm_sleep_time(llm.retry_delay, call.attempt)),
             !.attempt = @ + 1,
             !.received = c]
    ELSE call' = [call EXCEPT
             !.requests = @ + 1,
             !.errs = Append(@, e),
             !.pc = "done",
             !.outcome = "raised",
             !.raises = @ + 1,
             !.cause = RaisedCause(Append(call.errs, e)),
             !.received = c]

\* An attempt whose request raises e.
generate_text_fail(e) ==
    /\ call.client = "llm"
    /\ call.pc = "loop"
    /\ call.attempt < llm.max_retries
    /\ generate_text_except(e, NoCompletion)
    /\ UNCHANGED llm

\* An attempt whose request succeeds with a completion the try body raises
\* on: AttributeError on a usage that is None, before any total changed, or
\* IndexError on empty choices, after the totals changed.
generate_text_reject(c) ==
    /\ call.client = "llm"
    /\ call.pc = "loop"
    /\ call.attempt < llm.max_retries
    /\ UsageRaises(c) \/ ChoicesRaise(c)
    /\ WithinTokens(c)
    /\ IF UsageRaises(c)
       THEN /\ UNCHANGED llm
            /\ generate_text_except("AttributeError", c)
       ELSE /\ llm' = TrackUsage(llm, c)
            /\ generate_text_except("IndexError", c)

\* range(max_retries) is exhausted without a return or a raise: the function
\* ends and returns None.
generate_text_exit ==
    /\ call.client = "llm"
    /\ call.pc = "loop"
    /\ call.attempt >= llm.max_retries
    /\ call' = [call EXCEPT !.pc = "done", !.outcome = "returned_none"]
    /\ UNCHANGED llm

\* search is entered: the loop starts at attempt 0.
\* dict.update, and {**a, **b}: the keys of both, the values of u where it
\* has the key.
DictUpdate(d, u) ==
    [k \in (DOMAIN d) \cup (DOMAIN u) |-> IF k \in DOMAIN u THEN u[k] ELSE d[k]]

\* search_params = None, which "search_params or {}" turns into {}.
NoSearchParams == <<>>

\* payload = {"api_key": self.api_key, "query": query, **search_params}
SearchPayload(api_key, query, search_params) ==
    DictUpdate([api_key |-> api_key, query |-> query], search_params)

\* search is entered from caller: the payload is built and the loop starts
\* at attempt 0.
search_enter(caller, query, search_params) ==
    /\ search_tool.state = "ready"
    /\ call.pc \in {"idle", "done"}
    /\ call' = [IdleCall EXCEPT
                  !.client = "search", !.caller = caller, !.pc = "loop",
                  !.query = query,
                  !.payload = SearchPayload(search_tool.api_key.v, query, search_params)]

\* search(query) called directly, without search_params.
search_begin == search_enter("direct", "q", NoSearchParams)

\* The fixed parameters of the two specializations.
JobSearchParams ==
    [include_domains |-> <<"linkedin.com", "indeed.com", "glassdoor.com",
                           "monster.com", "dice.com", "bls.gov">>,
     search_depth |-> "advanced"]
CourseSearchParams ==
    [include_domains |-> <<"coursera.org", "udemy.com", "edx.org", "pluralsight.com",
                           "udacity.com", "linkedin.com/learning", "skillshare.com">>,
     search_depth |-> "advanced"]

\* A search_job_market that updates the configured preset itself, not a copy.
search_job_market_in_place(query) ==
    /\ search_enter("search_job_market", query,
                    DictUpdate(config.TAVILY_SEARCH_PARAMS_JOB, JobSearchParams))
    /\ config' = [config EXCEPT !.TAVILY_SEARCH_PARAMS_JOB =
                                   DictUpdate(@, JobSearchParams)]

\* search_job_market(query): a copy of the configured preset, updated with
\* the fixed parameters, is passed to search.
search_job_market(query) ==
    /\ search_enter("search_job_market", query,
                    DictUpdate(config.TAVILY_SEARCH_PARAMS_JOB, JobSearchParams))
    /\ UNCHANGED config

\* search_courses(query): the same with the course preset.
search_courses(query) ==
    /\ search_enter("search_courses", query,
                    DictUpdate(config.TAVILY_SEARCH_PARAMS_COURSE, CourseSearchParams))
    /\ UNCHANGED config

\* An attempt whose request succeeds: the parsed body is returned.
search_ok(result) ==
    /\ call.client = "search"
    /\ call.pc = "loop"
    /\ call.attempt < search_tool.max_retries
    /\ call' = [call EXCEPT !.requests = @ + 1, !.pc = "done",
                            !.outcome = "returned", !.response = result]

\* An attempt that raises the RequestException e.
search_fail(e) ==
    /\ call.client = "search"
    /\ call.pc = "loop"
    /\ call.attempt < search_tool.max_retries
    /\ IF call.attempt < search_tool.max_retries - 1
       THEN call' = [call EXCEPT
                !.requests = @ + 1,
                !.errs = Append(@, e),
                !.sleeps = Append(@, search_sleep_time(search_tool.retry_delay,
                                                       call.attempt)),
                !.attempt = @ + 1]
       ELSE call' = [call EXCEPT
                !.requests = @ + 1,
                !.errs = Append(@, e),
                !.pc = "done",
                !.outcome = "raised",
                !.raises = @ + 1,
                !.cause = RaisedCause(Append(call.errs, e))]

\* range(max_retries) is exhausted: search returns None.
search_exit ==
    /\ call.client = "search"
    /\ call.pc = "loop"
    /\ call.attempt >= search_tool.max_retries
    /\ call' = [call EXCEPT !.pc = "done", !.outcome = "returned_none"]

-----------------------------------------------------------------------------
(* Response texts: a payload with text before and after it.                *)

SeqsUpTo(S, n) == UNION {[1..k -> S] : k \in 0..n}

RECURSIVE Join(_)
\* The tokens of items, separated by commas.
Join(items) ==
    IF Len(items) = 0 THEN <<>>
    ELSE IF Len(items) = 1 THEN <<items[1]>>
    ELSE <<items[1], COMMA>> \o Join(Tail(items))

ArrayText(items) == <<LBRACKET>> \o Join(items) \o <<RBRACKET>>
ObjectText(members) == <<LBRACE>> \o Join(members) \o <<RBRACE>>

\* Arrays of up to MaxItems items.
ItemTokens == {"sPython", "sLead", "sGuru", NUMBER}
ItemLists == SeqsUpTo(ItemTokens, MaxItems)

\* One choice per key of an analysis object; "" leaves the key out.
MemberChoices ==
    {"", "el:senior", "el:LEAD", "el:guru"} \X {"", "cp"} \X {"", "st", "st:str"}
        \X {"", "wk"} \X {"", "ct"} \X {"", "er"} \X {"", "skills"}
MemberLists == {SelectSeq(m, LAMBDA tok : tok # "") : m \in MemberChoices}

\* Payloads of a skill-extraction response: arrays, and a few other values.
SkillPayloads ==
    {ArrayText(items) : items \in ItemLists}
        \cup {ArrayText(<<"sPython", "sNoLevel", "sLead">>),
              ArrayText(<<"sNoLevel">>),
              ArrayText(<<"sBadCat", "sLead", "sNoName">>),
              ArrayText(<<"sNegYears", "sPython">>),
              <<LBRACKET, WS, "sLead", WS, COMMA, WS, "sPython", WS, RBRACKET>>,
              <<LBRACKET, LBRACKET, "sPython", RBRACKET, COMMA, "sLead", RBRACKET>>,
              <<LBRACKET, "sPython", COMMA, RBRACKET>>,
              ObjectText(<<"cp", "st">>),
              <<>>, <<NUMBER>>, <<"sPython">>}

\* Payloads of a profile-analysis response: objects, and a few other values.
AnalysisPayloads ==
    {ObjectText(members) : members \in MemberLists}
        \cup {<<LBRACE, WS, "el:guru", COMMA, WS, "el:senior", WS, RBRACE>>,
              <<LBRACE, "cp", COMMA, RBRACE>>,
              ArrayText(<<NUMBER>>),
              <<>>, <<NUMBER>>}

\* Text around the payload: at most MaxPad tokens before and after it.
SkillPadTokens == {WS, PROSE, FENCE_JSON, FENCE, LBRACKET, RBRACKET}
AnalysisPadTokens == {WS, PROSE, FENCE_JSON, FENCE, LBRACE, RBRACE}
PadPairs(tokens) ==
    {pp \in SeqsUpTo(tokens, MaxPad) \X SeqsUpTo(tokens, MaxPad) :
        Len(pp[1]) + Len(pp[2]) <= MaxPad}

NotRun == [raised |-> FALSE, exc |-> "", value |-> <<>>]

-----------------------------------------------------------------------------
(* BaseAgent: the result cache.                                            *)

EmptyCache == [k \in {} |-> None]
\* The record of a cache call: the operation, its arguments, the clock
\* reading it took, what it returned, and the call made just before it.
NoPrev == [op |-> "none", key |-> "", max_age |-> 0, at |-> 0, value |-> None]
NoCall == [op |-> "none", key |-> "", max_age |-> 0, at |-> 0, value |-> None,
           data |-> "", prev |-> NoPrev]
Summary(g) == [op |-> g.op, key |-> g.key, max_age |-> g.max_age, at |-> g.at,
               value |-> g.value]

\* The age test with the boundary excluded (age >= max_age_seconds).
IsExpiredAtBoundary(age, max_age_seconds) == age >= max_age_seconds

\* if age > max_age_seconds: return None
IsExpired(age, max_age_seconds) == age > max_age_seconds

\* A store that drops every other entry.
CachePutOnly(cache, key, data, time) ==
    [k \in {key} |-> [data |-> data, timestamp |-> time]]

\* A store that keeps an entry already present under the key.
CachePutIfAbsent(cache, key, data, time) ==
    [k \in (DOMAIN cache) \cup {key} |->
        IF k \in DOMAIN cache THEN cache[k] ELSE [data |-> data, timestamp |-> time]]

\* self.result_cache after self.result_cache[key] = {data, timestamp}
CachePut(cache, key, data, time) ==
    [k \in (DOMAIN cache) \cup {key} |->
        IF k = key THEN [data |-> data, timestamp |-> time] ELSE cache[k]]

\* A _cache_result that stores nothing.
cache_result_skipped(key, data) ==
    UNCHANGED result_cache

\* _cache_result(key, data)
cache_result(key, data) ==
    result_cache' = CachePut(result_cache, key, data, now)

\* A read that ignores the age of the entry.
CachedValueAnyAge(cache, key, max_age_seconds, time) ==
    IF key \notin DOMAIN cache THEN None ELSE Some(cache[key].data)

\* The value _get_cached_result(key, max_age_seconds) returns at time `time`.
CachedValue(cache, key, max_age_seconds, time) ==
    IF key \notin DOMAIN cache THEN None
    ELSE IF IsExpired(time - cache[key].timestamp, max_age_seconds) THEN None
    ELSE Some(cache[key].data)

\* A read that deletes the entry it finds too old.
get_cached_result_evict(key, max_age_seconds) ==
    /\ got' = [op |-> "get_cached_result", key |-> key, max_age |-> max_age_seconds,
               at |-> now,
               value |-> CachedValue(result_cache, key, max_age_seconds, now),
               data |-> "", prev |-> Summary(got)]
    /\ result_cache' =
          IF ~CachedValue(result_cache, key, max_age_seconds, now).some
          THEN [k \in (DOMAIN result_cache) \ {key} |-> result_cache[k]]
          ELSE result_cache

\* _get_cached_result(key, max_age_seconds): the cache is only read.
get_cached_result(key, max_age_seconds) ==
    /\ got' = [op |-> "get_cached_result", key |-> key, max_age |-> max_age_seconds,
               at |-> now,
               value |-> CachedValue(result_cache, key, max_age_seconds, now),
               data |-> "", prev |-> Summary(got)]
    /\ UNCHANGED result_cache

\* Time passes.
Tick ==
    /\ now < MaxTime
    /\ now' = now + 1

-----------------------------------------------------------------------------
(* ProfileAnalyzerAgent.execute.                                           *)

Profiles == {"p1", "p2"}

\* input_data: a dict with or without the key profile_text.
NoProfileInput == [other |-> "x"]
Inputs == {[profile_text |-> p] : p \in Profiles} \cup {NoProfileInput}

\* No execute has been called yet.
NoInput == [called |-> FALSE]

\* An input check that finds nothing missing.
NeverMissing(input_data) == FALSE

\* 'profile_text' not in input_data
MissingProfileText(input_data) == "profile_text" \notin DOMAIN input_data

\* f"profile_analysis_{hash(profile_text)}"
CacheKey(p) ==
    CASE p = "p1" -> "profile_analysis_h1"
      [] p = "p2" -> "profile_analysis_h2"
      [] OTHER -> "profile_analysis_h0"

\* The envelope generate_text returns (llm_interface.py 104-112): the
\* content may be None.
Envelope(content) == [choices |-> <<[message |-> [content |-> content]]>>]

\* dict.get(key, default): the default only when the key is missing.
EmptyDict == <<>>
DictGet(d, key, default) == IF key \in DOMAIN d THEN d[key] ELSE default

\* get_completion on a finished generate_text call: the exception of
\* generate_text propagates, None.get raises AttributeError, and otherwise
\* the content of the envelope is returned.
get_completion(c) ==
    IF c.outcome = "raised" THEN Raised
    ELSE IF c.outcome = "returned_none" THEN Raised
    ELSE DictGet(DictGet(DictGet(Envelope(c.response),
                                 "choices", <<EmptyDict>>)[1],
                         "message", EmptyDict),
                 "content", Content(<<>>))

RECURSIVE JoinItems(_)
\* json.dumps separates the items of a list by a comma and a blank.
JoinItems(items) ==
    IF Len(items) = 0 THEN <<>>
    ELSE IF Len(items) = 1 THEN <<items[1]>>
    ELSE <<items[1], COMMA, WS>> \o JoinItems(Tail(items))

\* json.dumps of a float that holds a whole number: 5.0, -1.0.
DumpFloat(n) == ToString(n) \o ".0"

\* json.dumps of skill.dict(): the four fields in declaration order, the
\* values as the validators left them, the whole object as one token.
DumpSkill(s) ==
    "{\"name\": \"" \o s.name \o "\", \"category\": \"" \o s.category
        \o "\", \"level\": \"" \o s.level
        \o "\", \"years_experience\": " \o DumpFloat(s.years_experience) \o "}"

\* json.dumps([skill.dict() for skill in skills])
json_dumps(sk) ==
    <<LBRACKET>> \o JoinItems([i \in 1..Len(sk) |-> DumpSkill(sk[i])]) \o <<RBRACKET>>

\* The two prompt templates: the instructions up to the profile, and for the
\* analysis the heading of the skills that follows it.
SKILL_EXTRACTION_PROMPT ==
    [head |-> "extract-skills: Profile to analyze:", skills_head |-> ""]
PROFILE_ANALYSIS_PROMPT ==
    [head |-> "analyze-profile: Profile to analyze:",
     skills_head |-> "Skills already identified:"]

\* A template formatted without its skills_json.
format_prompt_profile_only(template, profile_text, skills_json) ==
    <<template.head, profile_text>>

\* _format_prompt(template, profile_text=..., skills_json=...): the values
\* are substituted as they are; a template without {skills_json} is
\* formatted with profile_text alone.
format_prompt(template, profile_text, skills_json) ==
    IF template.skills_head = ""
    THEN <<template.head, profile_text>>
    ELSE <<template.head, profile_text, template.skills_head>> \o skills_json

\* The clock readings of an execute that has not been called.
NoTimer == [start |-> 0, stop |-> 0]

\* get_performance_stats(): execution_time, the usage statistics of the
\* generation client and the size of the cache.
get_performance_stats ==
    [execution_time |-> execution_time,
     llm_usage |-> get_usage_stats,
     cache_size |-> Cardinality(DOMAIN result_cache)]

\* A call of get_usage_stats that also sets the totals back to 0.
usage_stats_read_and_reset ==
    /\ got' = [NoCall EXCEPT !.op = "get_usage_stats", !.at = now,
                             !.value = Some(get_usage_stats)]
    /\ llm' = [llm EXCEPT !.total_tokens = 0, !.total_prompt_tokens = 0,
                          !.total_completion_tokens = 0]
    /\ UNCHANGED <<result_cache, execution_time>>

\* A call of llm.get_usage_stats(): the dict is built and returned.
usage_stats_read ==
    /\ got' = [NoCall EXCEPT !.op = "get_usage_stats", !.at = now,
                             !.value = Some(get_usage_stats)]
    /\ UNCHANGED <<llm, result_cache, execution_time>>

\* A call of agent.get_performance_stats(): the dict is built and returned.
performance_stats_read ==
    /\ got' = [NoCall EXCEPT !.op = "get_performance_stats", !.at = now,
                             !.value = Some(get_performance_stats)]
    /\ UNCHANGED <<llm, result_cache, execution_time>>

\* An execute that answers from the cache when it holds an entry for the
\* profile, and otherwise goes on to the first generation call.
execute_begin_cached(input_data) ==
    /\ apc = "idle"
    /\ executions < MaxExecutions
    /\ executions' = executions + 1
    /\ exec_input' = input_data
    /\ calls_made' = <<>>
    /\ skills' = NotRun
    /\ analysis' = NotRun
    /\ completion' = NoneContent
    /\ IF MissingProfileText(input_data)
       THEN /\ exec_result' = Exc("ValueError")
            /\ apc' = "idle"
            /\ profile' = ""
            /\ UNCHANGED <<call, llm>>
       ELSE /\ profile' = input_data.profile_text
            /\ IF CacheKey(input_data.profile_text) \in DOMAIN result_cache
               THEN /\ exec_result' =
                         Ret(result_cache[CacheKey(input_data.profile_text)].data)
                    /\ apc' = "idle"
                    /\ UNCHANGED <<call, llm>>
               ELSE /\ exec_result' = NotRun
                    /\ apc' = "extract"
                    /\ generate_text_begin("skills",
                                           <<"extract-skills: Profile to analyze:",
                                             input_data.profile_text>>)
    /\ timer' = [start |-> now, stop |-> now]
    /\ UNCHANGED <<result_cache, now, execution_time>>

\* execute up to the first generation call: the input check, then
\* _extract_skills up to llm.get_completion.  ProfileAnalyzerAgent.execute
\* overrides BaseAgent.execute and has no statement that assigns
\* self.execution_time.  input_data['profile_text'] is read after the input
\* check, where the key is present.
execute_begin(input_data) ==
    /\ apc = "idle"
    /\ executions < MaxExecutions
    /\ executions' = executions + 1
    /\ exec_input' = input_data
    /\ calls_made' = <<>>
    /\ skills' = NotRun
    /\ analysis' = NotRun
    /\ completion' = NoneContent
    /\ IF MissingProfileText(input_data)
       THEN /\ exec_result' = Exc("ValueError")
            /\ apc' = "idle"
            /\ profile' = ""
            /\ UNCHANGED <<call, llm>>
       ELSE /\ exec_result' = NotRun
            /\ apc' = "extract"
            /\ profile' = DictGet(input_data, "profile_text", "")
            /\ generate_text_begin("skills", format_prompt(SKILL_EXTRACTION_PROMPT,
                                                    DictGet(input_data, "profile_text", ""),
                                                    <<>>))
    /\ timer' = [start |-> now, stop |-> now]
    /\ UNCHANGED <<result_cache, now, execution_time>>

\* The rest of _extract_skills, and execute up to the second generation call
\* made by _analyze_profile.
extract_skills_return ==
    /\ apc = "extract"
    /\ call.pc = "done"
    /\ LET c == get_completion(call)
       IN  /\ completion' = c
           /\ skills' = extract_skills(c)
    /\ calls_made' = Append(calls_made, [caller |-> call.caller, outcome |-> call.outcome,
                                       prompt |-> call.prompt])
    /\ generate_text_begin("analysis", format_prompt(PROFILE_ANALYSIS_PROMPT, profile,
                                                      json_dumps(skills'.value)))
    /\ apc' = "analyze"
    /\ UNCHANGED <<analysis, profile, exec_result, executions, exec_input, result_cache, now,
                   execution_time, timer>>

\* The rest of _analyze_profile and of execute: the ProfileAnalysis is built,
\* cached and returned, or its construction raises.
analyze_profile_return ==
    /\ apc = "analyze"
    /\ call.pc = "done"
    /\ LET c == get_completion(call)
           a == analyze_profile(c)
       IN  /\ completion' = c
           /\ analysis' = a
           /\ IF ProfileAnalysisAccepts(a.value)
              THEN /\ exec_result' = Ret(ProfileAnalysis(skills.value, a.value))
                   /\ cache_result(CacheKey(profile),
                                   ProfileAnalysis(skills.value, a.value))
              ELSE /\ exec_result' = Exc(IF "skills" \in DOMAIN a.value
                                         THEN "TypeError" ELSE "ValidationError")
                   /\ UNCHANGED result_cache
    /\ calls_made' = Append(calls_made, [caller |-> call.caller, outcome |-> call.outcome,
                                       prompt |-> call.prompt])
    /\ call' = IdleCall
    /\ apc' = "idle"
    /\ timer' = [timer EXCEPT !.stop = now]
    /\ UNCHANGED <<skills, profile, executions, exec_input, now, execution_time>>

\* What the generation service may answer to each of the two prompts.
SkillContents ==
    {Content(<<PROSE, WS>> \o ArrayText(<<"sPython", "sGuru", "sLead">>)),
     Content(<<PROSE>>)}
AnalysisContents ==
    {Content(<<FENCE_JSON>>
                \o ObjectText(<<"el:LEAD", "cp", "st", "wk", "ct", "er">>)
                \o <<FENCE>>),
     Content(ObjectText(<<"el:senior", "cp", "ct", "er">>)),
     Content(ObjectText(<<"cp", "st", "wk", "ct", "er">>)),
     Content(ObjectText(<<"el:guru", "cp", "st", "wk", "ct", "er">>)),
     Content(ObjectText(<<"el:senior", "cp", "st", "wk", "ct", "er", "skills">>)),
     Content(<<PROSE>>),
     NoneContent}
ContentsFor(caller) ==
    IF caller = "skills" THEN SkillContents ELSE AnalysisContents

\* The completions that carry these contents, each reporting one prompt token.
CompletionsFor(caller) ==
    {Completion(Usage(1, 0, 1), <<content>>) : content \in ContentsFor(caller)}

-----------------------------------------------------------------------------
(* SpecExtract: _extract_skills and _analyze_profile applied to a response. *)

\* The agent and the cache as constructed.
AgentIdle ==
    /\ apc = "idle"
    /\ profile = ""
    /\ calls_made = <<>>
    /\ exec_result = NotRun
    /\ executions = 0
    /\ exec_input = NoInput
    /\ execution_time = 0
    /\ timer = NoTimer

CacheIdle ==
    /\ result_cache = EmptyCache
    /\ now = 0
    /\ stored = EmptyCache
    /\ got = NoCall

ExtractInit ==
    /\ \/ /\ in_mode = "skills"
          /\ in_payload \in SkillPayloads
          /\ \E pp \in PadPairs(SkillPadTokens) : in_prefix = pp[1] /\ in_suffix = pp[2]
          /\ completion = Content(in_prefix \o in_payload \o in_suffix)
       \/ /\ in_mode = "analysis"
          /\ in_payload \in AnalysisPayloads
          /\ \E pp \in PadPairs(AnalysisPadTokens) : in_prefix = pp[1] /\ in_suffix = pp[2]
          /\ completion = Content(in_prefix \o in_payload \o in_suffix)
       \/ /\ in_mode \in {"skills", "analysis"}
          /\ in_prefix = <<>>
          /\ in_payload = <<>>
          /\ in_suffix = <<>>
          /\ completion \in {Raised, NoneContent}
    /\ payload = NoPayload
    /\ skills = NotRun
    /\ analysis = NotRun
    /\ xpc = "ready"
    /\ llm = DefaultLlm
    /\ search_tool = DefaultSearchTool
    /\ config = DefaultConfig
    /\ call = IdleCall
    /\ AgentIdle
    /\ CacheIdle

RunExtractSkills ==
    /\ xpc = "ready"
    /\ in_mode = "skills"
    /\ payload' = SkillsPayload(completion)
    /\ skills' = extract_skills(completion)
    /\ xpc' = "done"
    /\ UNCHANGED <<in_mode, in_prefix, in_payload, in_suffix, completion, analysis>>
    /\ UNCHANGED <<retryVars, agentVars, cacheVars>>

RunAnalyzeProfile ==
    /\ xpc = "ready"
    /\ in_mode = "analysis"
    /\ payload' = AnalysisPayload(completion)
    /\ analysis' = analyze_profile(completion)
    /\ xpc' = "done"
    /\ UNCHANGED <<in_mode, in_prefix, in_payload, in_suffix, completion, skills>>
    /\ UNCHANGED <<retryVars, agentVars, cacheVars>>

ExtractNext == RunExtractSkills \/ RunAnalyzeProfile

SpecExtract == ExtractInit /\ [][ExtractNext]_vars

-----------------------------------------------------------------------------
(* Properties of the extraction pipeline (SpecExtract).                    *)

SkillsDone == xpc = "done" /\ in_mode = "skills"
AnalysisDone == xpc = "done" /\ in_mode = "analysis"

\* The items that pass Skill validation, in order, each as the Skill built.
ValidSkillsOf(items) ==
    LET kept == SelectSeq(items, ItemAccepted)
    IN  [i \in 1..Len(kept) |-> Skill(SkillData(kept[i].tok))]

\* C6: whenever the response parsed to an array, _extract_skills returns
\* exactly the items that pass Skill validation, in their original order;
\* a failing item is dropped and the others are kept.
C6_ValidItemsKept ==
    (SkillsDone /\ payload.ok /\ payload.val.t = "array")
        => skills = Ret(ValidSkillsOf(payload.val.items))

\* One invalid item between two valid ones: exactly the two valid are returned.
C6_Witness ==
    /\ SkillsDone
    /\ payload.ok
    /\ payload.val = Arr(<<Atom("sPython"), Atom("sGuru"), Atom("sLead")>>)
    /\ skills.value = <<Skill(SkillData("sPython")), Skill(SkillData("sLead"))>>

\* The skill objects among the items of the parsed array.
SkillItems ==
    {SkillData(payload.val.items[i].tok) :
        i \in {j \in 1..Len(payload.val.items) :
                  /\ payload.val.items[j].t = "atom"
                  /\ payload.val.items[j].tok \in SkillTokens}}

\* The Skills returned, as a set.
Returned == {skills.value[i] : i \in 1..Len(skills.value)}

\* C19: every Skill returned by skill extraction has a category in
\* {technical, soft, domain} and a level in {beginner, intermediate,
\* advanced, expert}, in lowercase; an item whose category and level match
\* these case-insensitively is kept with the lowercase values, an item with
\* another category or level is not in the result, and the response
\* [Python, technical, advanced, 5] yields exactly that one Skill.
C19_SkillVocabulary ==
    SkillsDone =>
        /\ \A sk \in Returned :
              /\ sk.category \in {"technical", "soft", "domain"}
              /\ sk.level \in {"beginner", "intermediate", "advanced", "expert"}
        /\ (payload.ok /\ payload.val.t = "array") =>
              \A d \in SkillItems :
                 IF /\ SkillFields \subseteq DOMAIN d
                    /\ Lower(d.category) \in {"technical", "soft", "domain"}
                    /\ Lower(d.level) \in {"beginner", "intermediate", "advanced", "expert"}
                 THEN [d EXCEPT !.category = Lower(@), !.level = Lower(@)] \in Returned
                 ELSE \A sk \in Returned : sk.name # d.name
        /\ completion = Content(ArrayText(<<"sPython">>)) =>
              skills.value = <<[name |-> "Python", category |-> "technical",
                               level |-> "advanced", years_experience |-> 5]>>

\* Of a hardware/expert item, a SOFT/Expert item and a domain/beginner item
\* the first is dropped and the second is returned as soft/expert.
C19_Witness ==
    /\ SkillsDone
    /\ payload.ok
    /\ payload.val = Arr(<<Atom("sBadCat"), Atom("sLead"), Atom("sNoName")>>)
    /\ Len(skills.value) = 2
    /\ skills.value[1] = [name |-> "Leadership", category |-> "soft",
                          level |-> "expert", years_experience |-> 2]

\* C20: every Skill returned by skill extraction has a non-empty name and a
\* years_experience that is not negative.
C20_NameAndYears ==
    SkillsDone =>
        \A sk \in Returned : sk.name # "" /\ sk.years_experience >= 0

\* in_payload is a well-formed JSON array.
PayloadIsArray ==
    JsonLoads(in_payload).ok /\ JsonLoads(in_payload).val.t = "array"

\* in_payload is a well-formed JSON object.
PayloadIsObject ==
    JsonLoads(in_payload).ok /\ JsonLoads(in_payload).val.t = "object"

\* C7 as stated: a well-formed array embedded in any text, with any prefix
\* and any suffix, is the payload handed to per-item validation.
C7_AnyPrefixSuffix ==
    (SkillsDone /\ PayloadIsArray) => payload = JsonLoads(in_payload)

\* C7 amended: a well-formed array embedded in a text whose prefix holds no
\* opening bracket and whose suffix holds no closing bracket is the payload
\* handed to per-item validation.
C7_BracketFreePrefixSuffix ==
    (/\ SkillsDone
     /\ PayloadIsArray
     /\ Find(in_prefix, LBRACKET) = -1
     /\ Find(in_suffix, RBRACKET) = -1)
        => payload = JsonLoads(in_payload)

\* An array of two items recovered from between prose.
C7_Witness ==
    /\ SkillsDone
    /\ PayloadIsArray
    /\ in_prefix = <<PROSE>>
    /\ in_suffix = <<PROSE>>
    /\ payload.ok
    /\ Len(payload.val.items) = 2

\* A code-fence opener, possibly followed by blanks.
FenceOpener(prefix) ==
    /\ Len(prefix) >= 1
    /\ prefix[1] \in {FENCE_JSON, FENCE}
    /\ \A i \in 2..Len(prefix) : prefix[i] = WS

\* A code-fence closer, possibly preceded by blanks.
FenceCloser(suffix) ==
    /\ Len(suffix) >= 1
    /\ suffix[Len(suffix)] = FENCE
    /\ \A i \in 1..(Len(suffix) - 1) : suffix[i] = WS

\* C8: a payload (an array for skill extraction, an object for profile
\* analysis) wrapped in a code-fence opener and closer yields the same parsed
\* payload, and the same result, as the payload alone.
C8_FenceWrapped ==
    /\ (SkillsDone /\ PayloadIsArray /\ FenceOpener(in_prefix) /\ FenceCloser(in_suffix))
          => /\ payload = SkillsPayload(Content(in_payload))
             /\ skills = extract_skills(Content(in_payload))
    /\ (AnalysisDone /\ PayloadIsObject /\ FenceOpener(in_prefix) /\ FenceCloser(in_suffix))
          => /\ payload = AnalysisPayload(Content(in_payload))
             /\ analysis = analyze_profile(Content(in_payload))

\* A fenced object with a missing field, parsed and filled.
C8_Witness ==
    /\ AnalysisDone
    /\ in_prefix = <<FENCE_JSON>>
    /\ in_suffix = <<FENCE>>
    /\ payload.ok
    /\ payload.val = Obj(<<"el:senior", "cp">>)
    /\ analysis.value["strengths"] = List(<<>>)

\* None of the three parse tiers accepts the text.
AllTiersFail(text, open, close) ==
    /\ ~DelimiterParse(text, open, close).ok
    /\ ~JsonLoads(text).ok
    /\ ~JsonLoads(CleanResponse(text)).ok

\* C9: for every response, _extract_skills and _analyze_profile raise nothing;
\* when the generation call failed or every parse tier fails they return the
\* empty list and the fixed default record.
C9_NeverRaises ==
    /\ SkillsDone =>
          /\ ~skills.raised
          /\ (completion.raised \/ AllTiersFail(completion.text, LBRACKET, RBRACKET))
                => skills.value = <<>>
    /\ AnalysisDone =>
          /\ ~analysis.raised
          /\ (completion.raised \/ AllTiersFail(completion.text, LBRACE, RBRACE))
                => analysis.value = DefaultAnalysis

\* An empty code fence, which no tier can parse, ends in the default record.
C9_Witness ==
    /\ AnalysisDone
    /\ completion.text = <<FENCE_JSON, FENCE>>
    /\ AllTiersFail(completion.text, LBRACE, RBRACE)
    /\ analysis = Ret(DefaultAnalysis)

-----------------------------------------------------------------------------
(* SpecRetry: calls of generate_text and search, one after the other, on   *)
(* clients constructed with any retry policy.                              *)

RetryIdleExtract ==
    /\ in_mode = "skills"
    /\ in_prefix = <<>>
    /\ in_payload = <<>>
    /\ in_suffix = <<>>
    /\ completion = NoneContent
    /\ payload = NoPayload
    /\ skills = NotRun
    /\ analysis = NotRun
    /\ xpc = "ready"

RetryInit ==
    /\ llm \in {[DefaultLlm EXCEPT !.max_retries = n, !.retry_delay = d] :
                  n \in RetryCounts, d \in RetryDelays}
    /\ search_tool \in {[DefaultSearchTool EXCEPT !.max_retries = n, !.retry_delay = d] :
                          n \in RetryCounts, d \in RetryDelays}
    /\ config = DefaultConfig
    /\ call = IdleCall
    /\ RetryIdleExtract
    /\ AgentIdle
    /\ CacheIdle

\* What a step of a transport call leaves alone.
RetryFrame == UNCHANGED <<config, search_tool, extractVars, agentVars, cacheVars>>

RetryNext ==
    \/ generate_text_begin("direct", <<"p">>) /\ RetryFrame
    \/ \E c \in LlmCompletions : generate_text_ok(c) /\ RetryFrame
    \/ \E e \in Errors : generate_text_fail(e) /\ RetryFrame
    \/ \E c \in LlmCompletions : generate_text_reject(c) /\ RetryFrame
    \/ generate_text_exit /\ RetryFrame
    \/ search_begin /\ UNCHANGED llm /\ RetryFrame
    \/ \E result \in SearchResults : search_ok(result) /\ UNCHANGED llm /\ RetryFrame
    \/ \E e \in Errors : search_fail(e) /\ UNCHANGED llm /\ RetryFrame
    \/ search_exit /\ UNCHANGED llm /\ RetryFrame

SpecRetry == RetryInit /\ [][RetryNext]_vars

\* The retry policy of the client the current call runs on.
Policy == IF call.client = "llm" THEN llm ELSE search_tool

\* The current call has ended and none of its attempts succeeded.
FailedThroughout ==
    call.pc = "done" /\ call.outcome # "returned" /\ Len(call.errs) = call.requests

\* C1: with max_retries = N >= 1 and base delay d, a call of generate_text or
\* search whose every attempt fails makes exactly N requests and sleeps
\* exactly N-1 times, the k-th sleep lasting d * 2^k, none after the last.
C1_RequestsAndSleeps ==
    (FailedThroughout /\ Policy.max_retries >= 1)
        => /\ call.requests = Policy.max_retries
           /\ Len(call.sleeps) = Policy.max_retries - 1
           /\ \A k \in 0..(Policy.max_retries - 2) :
                  call.sleeps[k + 1] = Policy.retry_delay * (2 ^ k)

\* Four failed attempts with base delay 3: sleeps of 3, 6 and 12.
C1_Witness ==
    /\ FailedThroughout
    /\ call.client = "llm"
    /\ llm.max_retries = 4
    /\ call.requests = 4
    /\ call.sleeps = <<3, 6, 12>>

\* C2: when all max_retries attempts fail the call raises one exception, only
\* after the final attempt, whose cause is the error of the last attempt, and
\* no response is returned.
C2_RaisesLastError ==
    /\ (FailedThroughout /\ Policy.max_retries >= 1)
          => /\ call.outcome = "raised"
             /\ call.raises = 1
             /\ call.cause = call.errs[Policy.max_retries]
             /\ call.response = NoResponse
    /\ call.raises >= 1
          => /\ call.pc = "done"
             /\ call.requests = Policy.max_retries

\* A search that fails with e1, e1 and then e2 raises with cause e2.
C2_Witness ==
    /\ call.client = "search"
    /\ call.outcome = "raised"
    /\ call.errs = <<"e1", "e1", "e2">>
    /\ call.cause = "e2"

\* The three usage totals of the generation client.
Totals(l) == <<l.total_prompt_tokens, l.total_completion_tokens, l.total_tokens>>

\* A step that is an attempt of generate_text: one more request was made.
AttemptStep == call'.client = "llm" /\ call'.requests = call.requests + 1

\* C15: the usage totals change only in an attempt that ends in a successful
\* return of generate_text; an attempt that fails leaves all three as they
\* were, and no step decreases a total.
C15_UsageOnlyOnSuccess ==
    [][/\ Totals(llm') # Totals(llm)
          => AttemptStep /\ call'.pc = "done" /\ call'.outcome = "returned"
       /\ \A i \in 1..3 : Totals(llm')[i] >= Totals(llm)[i]]_vars

\* The completion received carries no usage metadata: the attribute is
\* missing or it is None.
NoUsageMetadata(c) == c.some /\ (~c.usage.attr \/ c.usage.null)

\* C16: an attempt whose completion carries no usage metadata, and has a
\* choice to read, is a success: generate_text returns on that attempt, the
\* totals stay as they were, and no error, sleep or retry follows from it.
C16_MissingUsageTolerated ==
    [][(AttemptStep /\ NoUsageMetadata(call'.received)
                    /\ call'.received.choices # <<>>)
          => /\ call'.pc = "done" /\ call'.outcome = "returned"
             /\ call'.response = call'.received.choices[1]
             /\ Totals(llm') = Totals(llm)
             /\ call'.errs = call.errs
             /\ call'.sleeps = call.sleeps]_vars

\* C17: whenever generate_text returned an envelope, get_completion returns
\* a text and does not raise: the content when there is one, and the empty
\* string when the content is null.
C17_CompletionIsText ==
    (call.client = "llm" /\ call.pc = "done" /\ call.outcome = "returned")
        => get_completion(call) =
              IF call.response.null THEN Content(<<>>) ELSE call.response

-----------------------------------------------------------------------------
(* SpecConstruct: the two clients from their construction on, under any    *)
(* configuration.                                                          *)

ConstructInit ==
    /\ config \in Configs
    /\ llm = NoLlm
    /\ search_tool = NoSearchTool
    /\ call = IdleCall
    /\ RetryIdleExtract
    /\ AgentIdle
    /\ CacheIdle

ConstructFrame == UNCHANGED <<config, extractVars, agentVars, cacheVars>>

ConstructNext ==
    \/ \E api_key \in KeyArgs, n \in 1..2 :
          OpenRouterLLM_init(api_key, n, 1)
             /\ UNCHANGED <<search_tool, call>> /\ ConstructFrame
    \/ \E api_key \in KeyArgs, n \in 1..2 :
          TavilySearchTool_init(api_key, n, 1)
             /\ UNCHANGED <<llm, call>> /\ ConstructFrame
    \/ generate_text_begin("direct", <<"p">>) /\ UNCHANGED search_tool /\ ConstructFrame
    \/ generate_text_ok(Completion(Usage(1, 1, 2), <<Content(<<PROSE>>)>>))
          /\ UNCHANGED search_tool /\ ConstructFrame
    \/ generate_text_fail("e1") /\ UNCHANGED search_tool /\ ConstructFrame
    \/ search_begin /\ UNCHANGED <<llm, search_tool>> /\ ConstructFrame
    \/ search_ok(Content(<<"results">>)) /\ UNCHANGED <<llm, search_tool>> /\ ConstructFrame
    \/ search_fail("e1") /\ UNCHANGED <<llm, search_tool>> /\ ConstructFrame

SpecConstruct == ConstructInit /\ [][ConstructNext]_vars

\* Neither the argument nor the configuration supplies a non-empty key.
NoCredential(arg, configured) ==
    /\ arg \in {None, Some("")}
    /\ configured \in {None, Some("")}

\* How the construction of a client ended, given the configured key: it
\* raised exactly when no credential was available, and an object exists
\* only with a non-empty key.
ConstructedRight(client, configured) ==
    /\ client.state = "raised" => NoCredential(client.arg, configured)
    /\ client.state = "ready"
          => /\ ~NoCredential(client.arg, configured)
             /\ client.api_key \in {Some("arg-key"), Some("env-key")}

\* C18: constructing OpenRouterLLM or TavilySearchTool with no credential
\* available raises at construction; the constructor makes no request and
\* does not sleep or retry, and no call ever runs on a client whose
\* construction did not succeed.
C18_NoCredentialFailsAtConstruction ==
    /\ [](/\ ConstructedRight(llm, config.OPENROUTER_API_KEY)
          /\ ConstructedRight(search_tool, config.TAVILY_API_KEY)
          /\ call.client = "llm" => llm.state = "ready"
          /\ call.client = "search" => search_tool.state = "ready")
    /\ [][(llm'.state = "raised" /\ llm' # llm) => call' = call]_vars
    /\ [][(search_tool'.state = "raised" /\ search_tool' # search_tool)
             => call' = call]_vars

\* The generation client could not be constructed (empty argument, empty
\* configured key) while the search client, given a key, has made a call.
C18_Witness ==
    /\ llm.state = "raised"
    /\ llm.arg = Some("")
    /\ config.OPENROUTER_API_KEY = Some("")
    /\ search_tool.state = "ready"
    /\ call.client = "search" /\ call.requests = 2

-----------------------------------------------------------------------------
(* SpecCache: _cache_result and _get_cached_result called in any order     *)
(* while time passes.                                                      *)

CacheKeys == {"k1", "k2"}
CacheData == {"d1", "d2"}
MaxAges == 0..2

CacheInit ==
    /\ llm = DefaultLlm
    /\ search_tool = DefaultSearchTool
    /\ config = DefaultConfig
    /\ call = IdleCall
    /\ RetryIdleExtract
    /\ AgentIdle
    /\ CacheIdle

CacheFrame == UNCHANGED <<retryVars, extractVars, agentVars>>

CacheNext ==
    \/ \E key \in CacheKeys, data \in CacheData :
          /\ cache_result(key, data)
          /\ stored' = CachePut(stored, key, data, now)
          /\ got' = [NoCall EXCEPT !.op = "cache_result", !.key = key, !.at = now,
                                   !.data = data, !.prev = Summary(got)]
          /\ UNCHANGED now
          /\ CacheFrame
    \/ \E key \in CacheKeys, max_age \in MaxAges :
          /\ get_cached_result(key, max_age)
          /\ UNCHANGED <<now, stored>>
          /\ CacheFrame
    \/ Tick /\ UNCHANGED <<result_cache, stored, got>> /\ CacheFrame

SpecCache == CacheInit /\ [][CacheNext]_vars

\* C10: _get_cached_result(key, max_age) returns the value most recently
\* stored under key exactly when an entry exists and now - stored_time <=
\* max_age, and None otherwise; the entry, stale or not, stays in the cache.
C10_FreshOrAbsent ==
    got.op = "get_cached_result" =>
        LET has == got.key \in DOMAIN stored
            fresh == has /\ got.at - stored[got.key].timestamp <= got.max_age
        IN  /\ got.value = IF fresh THEN Some(stored[got.key].data) ELSE None
            /\ has => /\ got.key \in DOMAIN result_cache
                      /\ result_cache[got.key] = stored[got.key]

\* A read exactly at the boundary (age = max_age = 1) of an overwritten key.
C10_Witness ==
    /\ got.op = "get_cached_result"
    /\ got.key \in DOMAIN stored
    /\ got.max_age = 1
    /\ got.at - stored[got.key].timestamp = 1
    /\ got.value = Some("d2")

\* A step that is a call of _cache_result.
CacheResultStep ==
    /\ got'.op = "cache_result"
    /\ now' = now
    /\ <<result_cache, got>>' # <<result_cache, got>>

\* C11: _cache_result(key, data) always stores: afterwards the entry of key
\* is exactly data with the current time as its timestamp, whatever entry
\* the key had before, and the entry of every other key is as it was.
C11_StoreReplacesOnlyKey ==
    [][CacheResultStep =>
        /\ DOMAIN result_cache' = (DOMAIN result_cache) \cup {got'.key}
        /\ result_cache'[got'.key] = [data |-> got'.data, timestamp |-> now]
        /\ \A k \in (DOMAIN result_cache) \ {got'.key} :
               result_cache'[k] = result_cache[k]]_vars

\* k1 was stored at time 0, read as stale at time 2, and has just been
\* stored again with other data while k2 keeps its entry of time 0.
C11_Witness ==
    /\ got.op = "cache_result" /\ got.key = "k1" /\ got.at = 2
    /\ got.prev = [op |-> "get_cached_result", key |-> "k1", max_age |-> 1,
                   at |-> 2, value |-> None]
    /\ result_cache["k1"] = [data |-> "d2", timestamp |-> 2]
    /\ "k2" \in DOMAIN result_cache
    /\ result_cache["k2"] = [data |-> "d1", timestamp |-> 0]

\* The latest two cache calls were reads of the same key with the same
\* max_age.
TwoReadsInSuccession ==
    /\ got.op = "get_cached_result"
    /\ got.prev.op = "get_cached_result"
    /\ got.prev.key = got.key
    /\ got.prev.max_age = got.max_age

\* The entry of the key read last was within max_age at clock reading t.
FreshAt(t) ==
    /\ got.key \in DOMAIN stored
    /\ t - stored[got.key].timestamp <= got.max_age

\* C12 as stated: two reads in succession of the same key with the same
\* max_age return the identical value, and the cache with its timestamps is
\* what the stores made it.
C12_TwoReadsSameValue ==
    TwoReadsInSuccession =>
        /\ got.value = got.prev.value
        /\ result_cache = stored

\* C12, amended: the two reads return the identical value unless the entry
\* passed max_age between them, and then the first returns the data and the
\* second None; reads never change the cache or its timestamps.
C12_TwoReadsSameValueWhileFresh ==
    /\ result_cache = stored
    /\ TwoReadsInSuccession =>
          IF FreshAt(got.prev.at) /\ ~FreshAt(got.at)
          THEN got.prev.value = Some(stored[got.key].data) /\ got.value = None
          ELSE got.value = got.prev.value

\* Two reads of a stale entry at the same clock reading: both None, and
\* the stale entry is still there.
C12_Witness ==
    /\ TwoReadsInSuccession
    /\ got.key \in DOMAIN stored
    /\ got.at = got.prev.at
    /\ got.at - stored[got.key].timestamp = 2
    /\ got.max_age = 1
    /\ got.value = None /\ got.prev.value = None
    /\ result_cache[got.key] = stored[got.key]

\* The latest call was a read with max_age 0 of the key stored by the call
\* just before it.
ReadRightAfterStore ==
    /\ got.op = "get_cached_result"
    /\ got.max_age = 0
    /\ got.prev.op = "cache_result"
    /\ got.prev.key = got.key

\* C13 as stated: a read with max_age 0 right after the store of the same
\* key returns None.
C13_ZeroAgeReadAbsent ==
    ReadRightAfterStore => got.value = None

\* C13, amended: the read returns None when the clock reading of the read
\* is later than that of the store, and the stored data when both readings
\* are the same.
C13_ZeroAgeReadAbsentOnceTimePassed ==
    ReadRightAfterStore =>
        got.value = IF got.at > got.prev.at THEN None
                    ELSE Some(stored[got.key].data)

\* The clock moved between the store and the read, and the read was None.
C13_Witness ==
    /\ ReadRightAfterStore
    /\ got.at = got.prev.at + 1
    /\ got.value = None

-----------------------------------------------------------------------------
(* Spec: the agent executing profile analyses, one after the other.        *)

Init ==
    /\ llm = [DefaultLlm EXCEPT !.max_retries = 2]
    /\ search_tool = DefaultSearchTool
    /\ config = DefaultConfig
    /\ call = IdleCall
    /\ RetryIdleExtract
    /\ AgentIdle
    /\ CacheIdle

Next ==
    \/ \E input_data \in Inputs :
          /\ execute_begin(input_data)
          /\ UNCHANGED <<config, search_tool, in_mode, in_prefix, in_payload,
                         in_suffix, payload, xpc, stored, got>>
    \/ \E c \in CompletionsFor(call.caller) :
          /\ apc # "idle"
          /\ generate_text_ok(c)
          /\ UNCHANGED <<config, search_tool, extractVars, agentVars, cacheVars>>
    \/ \E e \in {"e1"} :
          /\ apc # "idle"
          /\ generate_text_fail(e)
          /\ UNCHANGED <<config, search_tool, extractVars, agentVars, cacheVars>>
    \/ /\ extract_skills_return
       /\ UNCHANGED <<config, search_tool, in_mode, in_prefix, in_payload,
                      in_suffix, payload, xpc, stored, got>>
    \/ /\ analyze_profile_return
       /\ UNCHANGED <<config, llm, search_tool, in_mode, in_prefix, in_payload,
                      in_suffix, payload, xpc, stored, got>>
    \/ Tick /\ UNCHANGED <<result_cache, stored, got, retryVars, extractVars, agentVars>>

Spec == Init /\ [][Next]_vars
\* An execute call that made both generation calls has ended.
ExecuteEnded == apc = "idle" /\ Len(calls_made) = 2

\* Both generation calls of the execute that ended exhausted their retries.
BothExhausted ==
    /\ ExecuteEnded
    /\ calls_made[1].caller = "skills" /\ calls_made[1].outcome = "raised"
    /\ calls_made[2].caller = "analysis" /\ calls_made[2].outcome = "raised"

\* C3: when both generation calls of execute exhaust their retries, execute
\* raises nothing and returns a record of all seven fields: no skills and
\* the fixed defaults for the six analysis fields.
C3_DefaultsOnExhaustion ==
    BothExhausted =>
        exec_result =
            Ret([skills |-> <<>>,
                 experience_level |-> "mid",
                 career_progression |-> "Unable to analyze career progression",
                 strengths |-> <<"Unable to identify strengths">>,
                 weaknesses |-> <<"Unable to identify areas for improvement">>,
                 career_trajectory |-> "Unable to analyze career trajectory",
                 education_relevance |-> "Unable to analyze education relevance"])

\* Two retries each, all four attempts failed, and a record was returned.
C3_Witness ==
    /\ BothExhausted
    /\ llm.max_retries = 2
    /\ ~exec_result.raised
    /\ exec_result.value.skills = <<>>
    /\ exec_result.value.experience_level = "mid"

\* The analysis response of the execute that ended parsed to an object.
AnalysisParsedObject ==
    /\ ExecuteEnded
    /\ ~completion.raised
    /\ ~completion.null
    /\ AnalysisPayload(completion).ok
    /\ AnalysisPayload(completion).val.t = "object"

\* The required fields the parsed analysis object lacks.
MissingFields ==
    required_fields \ {PairKey(m) : m \in
        {AnalysisPayload(completion).val.members[i] :
            i \in 1..Len(AnalysisPayload(completion).val.members)}}

\* C4: when the analysis response parses to an object that lacks required
\* fields, the analysis raises nothing and its validated result holds every
\* required field, a missing list field as [] and a missing text field as
\* the sentinel string.
C4_MissingFieldsDefaulted ==
    (AnalysisParsedObject /\ MissingFields # {})
        => /\ ~exec_result.raised
           /\ \A k \in MissingFields :
                  exec_result.value[k] = IF k \in list_fields THEN <<>> ELSE SENTINEL

\* C5: a field of the parsed analysis object that violates the schema, or an
\* extra key skills, never aborts execute: whatever object with all six
\* required fields the analysis response parsed to, execute returns a record
\* of the seven fields and does not raise.
C5_SchemaFailureAbsorbed ==
    (AnalysisParsedObject /\ MissingFields = {})
        => /\ ~exec_result.raised
           /\ DOMAIN exec_result.value = required_fields \cup {"skills"}

\* C14: every call of execute, whether it returns or raises, has recorded
\* the time the call took in execution_time when control leaves it, so
\* that get_performance_stats reports the duration of the last execution.
C14_ExecutionTimeRecorded ==
    (apc = "idle" /\ executions > 0)
        => get_performance_stats.execution_time = timer.stop - timer.start

-----------------------------------------------------------------------------
(* SpecOps: the operations of one agent in any order: execute, the cache   *)
(* operations, and the two statistics reads.                               *)

OpsInputs == {[profile_text |-> "p1"], NoProfileInput}

\* What the generation service answers: a skill list and a valid analysis.
OpsCompletions(caller) ==
    {Completion(Usage(1, 0, 1), <<content>>) : content \in
        IF caller = "skills"
        THEN {Content(ArrayText(<<"sPython">>))}
        ELSE {Content(ObjectText(<<"el:senior", "cp", "st", "wk", "ct", "er">>))}}

OpsKeys == {"k1", CacheKey("p1")}
OpsData == [note : {"n1"}]

OpsInit ==
    /\ llm = [DefaultLlm EXCEPT !.max_retries = 1]
    /\ search_tool = DefaultSearchTool
    /\ config = DefaultConfig
    /\ call = IdleCall
    /\ RetryIdleExtract
    /\ AgentIdle
    /\ CacheIdle

\* What no operation of the agent touches.
OpsFrame == UNCHANGED <<config, search_tool, in_mode, in_prefix, in_payload,
                        in_suffix, payload, xpc, stored>>

\* What the cache operations and the statistics reads leave alone.
ReadFrame == UNCHANGED <<call, now, completion, skills, analysis, apc, profile,
                         calls_made, exec_result, executions, exec_input, timer>>

OpsNext ==
    \/ \E input_data \in OpsInputs :
          execute_begin(input_data) /\ UNCHANGED got /\ OpsFrame
    \/ \E c \in OpsCompletions(call.caller) :
          /\ apc # "idle"
          /\ generate_text_ok(c)
          /\ UNCHANGED <<extractVars, agentVars, cacheVars>> /\ OpsFrame
    \/ extract_skills_return /\ UNCHANGED got /\ OpsFrame
    \/ analyze_profile_return /\ UNCHANGED <<llm, got>> /\ OpsFrame
    \/ \E key \in OpsKeys, data \in OpsData :
          /\ cache_result(key, data)
          /\ got' = [NoCall EXCEPT !.op = "cache_result", !.key = key, !.at = now]
          /\ UNCHANGED <<llm, execution_time>> /\ ReadFrame /\ OpsFrame
    \/ \E key \in OpsKeys :
          /\ get_cached_result(key, 1)
          /\ UNCHANGED <<llm, execution_time>> /\ ReadFrame /\ OpsFrame
    \/ performance_stats_read /\ ReadFrame /\ OpsFrame
    \/ usage_stats_read /\ ReadFrame /\ OpsFrame
    \/ Tick /\ UNCHANGED <<result_cache, stored, got, retryVars, extractVars, agentVars>>

SpecOps == OpsInit /\ [][OpsNext]_vars

\* C21: no operation of the agent removes a cache entry: the set of cached
\* keys only grows, and a cache_size that get_performance_stats reported is
\* never more than the cache holds afterwards, stale entries included.
C21_CacheOnlyGrows ==
    /\ [][/\ DOMAIN result_cache \subseteq DOMAIN result_cache'
          /\ Cardinality(DOMAIN result_cache') >= Cardinality(DOMAIN result_cache)]_vars
    /\ [](got.op = "get_performance_stats"
            => got.value.v.cache_size <= Cardinality(DOMAIN result_cache))

\* Both entries are two ticks old, too old for any max_age read here, and
\* the statistics just read count them both.
C21_Witness ==
    /\ got.op = "get_performance_stats"
    /\ got.at = 2
    /\ DOMAIN result_cache = OpsKeys
    /\ \A k \in OpsKeys : result_cache[k].timestamp = 0
    /\ got.value.v.cache_size = 2

\* A step that is a call of the statistics read op: the latest call is op,
\* and neither the clock nor the agent nor a transport call moved.
StatsStep(op) ==
    /\ got'.op = op
    /\ now' = now /\ apc' = apc /\ call' = call /\ executions' = executions

\* What a statistics read must leave as it is.
StatsUntouched ==
    /\ result_cache' = result_cache
    /\ Totals(llm') = Totals(llm)
    /\ execution_time' = execution_time

\* The usage totals as get_usage_stats reports them.
UsageSnapshot ==
    [total_tokens |-> llm.total_tokens,
     prompt_tokens |-> llm.total_prompt_tokens,
     completion_tokens |-> llm.total_completion_tokens,
     estimated_cost |-> 0]

\* C22: get_performance_stats and get_usage_stats are pure reads: each
\* returns the execution_time, the usage totals and the cache size of the
\* moment, and leaves the cache, the totals and execution_time as they were.
C22_StatsArePureReads ==
    /\ [][StatsStep("get_usage_stats")
            => got'.value = Some(UsageSnapshot) /\ StatsUntouched]_vars
    /\ [][StatsStep("get_performance_stats")
            => /\ got'.value = Some([execution_time |-> execution_time,
                                     llm_usage |-> UsageSnapshot,
                                     cache_size |-> Cardinality(DOMAIN result_cache)])
               /\ StatsUntouched]_vars

\* After an execute with two successful generation calls the usage read
\* reports two tokens, and the totals are still two.
C22_Witness ==
    /\ got.op = "get_usage_stats"
    /\ got.value.v.total_tokens = 2
    /\ llm.total_tokens = 2
    /\ DOMAIN result_cache # {}

\* C27: for every max_retries the constructor accepts, 0 and negative values
\* included, a generate_text or search call that has ended either returned the
\* response of a successful attempt or raised the retries-exhausted failure;
\* it never returned without a response.
C27_ReturnsResponseOrRaises ==
    call.pc = "done"
        => \/ call.outcome = "returned" /\ call.response # NoResponse
           \/ call.outcome = "raised"

\* The part of an analysis prompt after the heading of the skills.
SkillsInPrompt(prompt) == SubSeq(prompt, 4, Len(prompt))

\* An execute call that was given a profile_text has ended.
ExecuteWithProfileEnded == apc = "idle" /\ executions > 0 /\ profile # ""

\* C24: an execute given a profile_text makes exactly two get_completion
\* calls, the skill extraction first and the profile analysis second; the
\* second prompt carries the JSON serialization of exactly the skills the
\* first step returned, the empty array when the extraction failed; and the
\* second call is started whatever way the first one ended.
C24_TwoCallsSkillsThenAnalysis ==
    /\ [](apc = "extract" => calls_made = <<>> /\ call.caller = "skills")
    /\ [](apc = "analyze" =>
            /\ Len(calls_made) = 1 /\ calls_made[1].caller = "skills"
            /\ call.caller = "analysis"
            /\ SkillsInPrompt(call.prompt) = json_dumps(skills.value))
    /\ [](ExecuteWithProfileEnded =>
            /\ Len(calls_made) = 2
            /\ calls_made[1].caller = "skills" /\ calls_made[2].caller = "analysis"
            /\ calls_made[1].prompt[2] = profile /\ calls_made[2].prompt[2] = profile
            /\ SkillsInPrompt(calls_made[2].prompt) = json_dumps(skills.value)
            /\ (calls_made[1].outcome = "raised"
                  => SkillsInPrompt(calls_made[2].prompt) = <<LBRACKET, RBRACKET>>))
    /\ [][apc = "extract" /\ apc' # "extract"
            => apc' = "analyze" /\ call'.pc = "loop" /\ call'.requests = 0]_vars

\* The extraction kept two skills of three, and the analysis prompt ended
\* with their serialization: lowercase category and level, years as floats.
C24_Witness ==
    /\ ExecuteWithProfileEnded
    /\ Len(skills.value) = 2
    /\ calls_made[1].outcome = "returned"
    /\ SkillsInPrompt(calls_made[2].prompt) =
          <<LBRACKET,
            "{\"name\": \"Python\", \"category\": \"technical\", \"level\": \"advanced\", \"years_experience\": 5.0}",
            COMMA, WS,
            "{\"name\": \"Leadership\", \"category\": \"soft\", \"level\": \"expert\", \"years_experience\": 2.0}",
            RBRACKET>>

\* The step in which an execute call ends: by the ValueError of the input
\* check, or after the second generation call.
ExecuteEnds == executions' # executions \/ (apc = "analyze" /\ apc' = "idle")

\* C25: an execute that returns has stored, under the key of its
\* profile_text, an entry whose data is the returned record; no other step
\* of an execute writes the cache, so an execute that raises leaves the
\* cache as it was before the call.
C25_CachedIffReturned ==
    /\ []((ExecuteWithProfileEnded /\ ~exec_result.raised) =>
            /\ CacheKey(profile) \in DOMAIN result_cache
            /\ result_cache[CacheKey(profile)].data = exec_result.value)
    /\ [][(ExecuteEnds /\ apc' = "idle" /\ ~exec_result'.raised) =>
            result_cache' = CachePut(result_cache, CacheKey(profile),
                                     exec_result'.value, now)]_vars
    /\ [][(ExecuteEnds /\ apc' = "idle" /\ exec_result'.raised) =>
            result_cache' = result_cache]_vars
    /\ [][(apc' # "idle") => result_cache' = result_cache]_vars

\* An execute returned a record with skills at time 1 or later, and the
\* cache holds that record under the key of the profile.
C25_Witness ==
    /\ ExecuteWithProfileEnded
    /\ ~exec_result.raised
    /\ Len(exec_result.value.skills) = 2
    /\ result_cache[CacheKey(profile)].data = exec_result.value
    /\ result_cache[CacheKey(profile)].timestamp >= 1

\* The step that is an execute call whose input has no key profile_text.
ExecuteWithoutProfile ==
    executions' # executions /\ "profile_text" \notin DOMAIN exec_input'

\* C26: execute on an input without the key profile_text raises ValueError
\* at once: no generation call is started or recorded, nothing is slept, the
\* usage totals and the cache stay as they were.
C26_MissingInputRaisesFirst ==
    [][ExecuteWithoutProfile =>
          /\ exec_result' = Exc("ValueError")
          /\ apc' = "idle"
          /\ calls_made' = <<>>
          /\ call' = call
          /\ llm' = llm
          /\ result_cache' = result_cache]_vars

\* A first execute returned and was cached, with its usage counted; the
\* second one, without profile_text, raised ValueError and changed neither.
C26_Witness ==
    /\ executions = 2
    /\ apc = "idle"
    /\ "profile_text" \notin DOMAIN exec_input
    /\ exec_result = Exc("ValueError")
    /\ calls_made = <<>>
    /\ llm.total_tokens = 2
    /\ DOMAIN result_cache # {}

\* The step that is an execute call whose input has the key profile_text.
ExecuteWithProfile ==
    executions' # executions /\ "profile_text" \in DOMAIN exec_input'

\* C28: execute never reads the cache: whatever the cache holds, an execute
\* given a profile_text starts the skill-extraction call, makes both
\* generation calls, and when it returns the entry of its key is the one it
\* has just written.
C28_ExecuteIgnoresCache ==
    /\ [][ExecuteWithProfile =>
            /\ apc' = "extract"
            /\ call'.pc = "loop" /\ call'.caller = "skills" /\ call'.requests = 0
            /\ exec_result' = NotRun]_vars
    /\ []((ExecuteWithProfileEnded /\ ~exec_result.raised) =>
            /\ Len(calls_made) = 2
            /\ result_cache[CacheKey(profile)].timestamp = timer.stop
            /\ result_cache[CacheKey(profile)].data = exec_result.value)

\* A second execute for a profile whose entry was cached at this very
\* moment has made the first generation call and started the second.
C28_Witness ==
    /\ executions = 2
    /\ apc = "analyze"
    /\ Len(calls_made) = 1
    /\ call.caller = "analysis" /\ call.pc = "loop"
    /\ CacheKey(profile) \in DOMAIN result_cache
    /\ result_cache[CacheKey(profile)].timestamp = now

-----------------------------------------------------------------------------
(* SpecSearch: the search tool under every configured pair of presets.      *)

Queries == {"q1", "q2"}

SearchInit ==
    /\ config \in SearchConfigs
    /\ llm = DefaultLlm
    /\ search_tool = [DefaultSearchTool EXCEPT !.max_retries = 2]
    /\ call = IdleCall
    /\ RetryIdleExtract
    /\ AgentIdle
    /\ CacheIdle

SearchFrame == UNCHANGED <<llm, search_tool, extractVars, agentVars, cacheVars>>

SearchNext ==
    \/ \E query \in Queries : search_job_market(query) /\ SearchFrame
    \/ \E query \in Queries : search_courses(query) /\ SearchFrame
    \/ search_begin /\ UNCHANGED config /\ SearchFrame
    \/ \E result \in SearchResults : search_ok(result) /\ UNCHANGED config /\ SearchFrame
    \/ \E e \in Errors : search_fail(e) /\ UNCHANGED config /\ SearchFrame

SpecSearch == SearchInit /\ [][SearchNext]_vars

\* The payload a specialization must send: the fixed parameters, then what
\* the preset adds, then the key and the query.
ExpectedPayload(preset, fixed, query) ==
    [k \in {"api_key", "query"} \cup DOMAIN preset \cup DOMAIN fixed |->
        IF k \in DOMAIN fixed THEN fixed[k]
        ELSE IF k \in DOMAIN preset THEN preset[k]
        ELSE IF k = "api_key" THEN search_tool.api_key.v
        ELSE query]

\* C23: whatever the query and the configured presets, the search issued by
\* search_job_market or search_courses carries the allow-list of domains and
\* the depth "advanced" of that specialization in place of any configured
\* value of the same name, together with the other configured parameters;
\* the configured presets never change, so the payload is the same for every
\* call with the same query.
C23_FixedParamsOverPreset ==
    /\ [](call.caller = "search_job_market" =>
            /\ call.payload.include_domains = JobSearchParams.include_domains
            /\ call.payload.search_depth = "advanced"
            /\ call.payload = ExpectedPayload(config.TAVILY_SEARCH_PARAMS_JOB,
                                              JobSearchParams, call.query))
    /\ [](call.caller = "search_courses" =>
            /\ call.payload.include_domains = CourseSearchParams.include_domains
            /\ call.payload.search_depth = "advanced"
            /\ call.payload = ExpectedPayload(config.TAVILY_SEARCH_PARAMS_COURSE,
                                              CourseSearchParams, call.query))
    /\ [][config' = config]_vars

\* The job preset asks for depth basic, five results and example.com; the
\* job search that returned sent depth advanced, the six job sites and five
\* results, and the preset is as configured.
C23_Witness ==
    /\ call.caller = "search_job_market"
    /\ call.pc = "done" /\ call.outcome = "returned" /\ call.requests = 2
    /\ "include_domains" \in DOMAIN config.TAVILY_SEARCH_PARAMS_JOB
    /\ config.TAVILY_SEARCH_PARAMS_JOB.search_depth = "basic"
    /\ config.TAVILY_SEARCH_PARAMS_JOB.include_domains = <<"example.com">>
    /\ call.payload.search_depth = "advanced"
    /\ Len(call.payload.include_domains) = 6
    /\ call.payload.max_results = 5

====
